---- MODULE Spec2Model ----
(***************************************************************************)
(* Model of the two verification scripts of the repository:                *)
(*   src/test-e2e-flow.py     ("gateway" script, three probes in a try)    *)
(*   src/test-nlb-session.py  ("nlb" script, test_health and               *)
(*                             test_session_creation called from main)     *)
(* A process runs one script from start to exit; processes are started one *)
(* after the other.  The transport (requests.get / requests.post) is the   *)
(* environment: every call ends in a response or in a raised exception.    *)
(***************************************************************************)
EXTENDS Integers, Sequences, FiniteSets, TLC

VARIABLES
    clock,       \* wall clock, in ticks (TicksPerSecond ticks per second)
    run,         \* number of processes started so far
    script,      \* script of the current process: "none", "gateway", "nlb"
    pc,          \* position of the current process in its script
    step,        \* index of the probe the process is at (0 before the first)
    SESSION_ID,  \* module global of test-e2e-flow.py (NoId while unset)
    session_id,  \* local of test_session_creation (NoId while unset)
    health_ok,   \* local of __main__ in test-nlb-session.py
    session_ok,  \* local of __main__ in test-nlb-session.py
    inflight,    \* requests handed to the transport and not yet answered
    requests,    \* every request issued by the current process, in order
    results,     \* what the transport did with each request, in order
    outcomes,    \* the outcome the script reported for each probe, in order
    out,         \* lines printed on standard output by the current process
    exitCode,    \* exit status of the current process (Running until exit)
    generated    \* session identifiers generated by all processes so far

vars == <<clock, run, script, pc, step, SESSION_ID, session_id, health_ok,
          session_ok, inflight, requests, results, outcomes, out, exitCode,
          generated>>

----------------------------------------------------------------------------
(* Bounds of the model *)

MaxRuns == 2
MaxClock == 4
TicksPerSecond == 2

----------------------------------------------------------------------------
(* Values *)

NoId == <<"unset", 0>>
Running == -1

Scripts == {"gateway", "nlb"}

\* Status codes and bodies a server may answer with.
Statuses == {200, 201, 500}
Bodies == {"{}", "OK"}

\* Exceptions requests.get / requests.post may raise.
TransportExceptions == {"ReadTimeout", "ConnectionError", "ConnectTimeout",
                        "TooManyRedirects"}

\* Classes an exception is an instance of (its method resolution order).
Bases(exc) ==
    CASE exc = "ReadTimeout" ->
            {"ReadTimeout", "Timeout", "RequestException", "Exception",
             "BaseException"}
      [] exc = "ConnectionError" ->
            {"ConnectionError", "RequestException", "Exception",
             "BaseException"}
      [] exc = "ConnectTimeout" ->
            {"ConnectTimeout", "ConnectionError", "Timeout",
             "RequestException", "Exception", "BaseException"}
      [] exc = "TooManyRedirects" ->
            {"TooManyRedirects", "RequestException", "Exception",
             "BaseException"}
      [] exc = "JSONDecodeError" ->
            {"JSONDecodeError", "ValueError", "Exception", "BaseException"}
      [] exc = "SystemExit" ->
            {"SystemExit", "BaseException"}
      [] OTHER -> {}

Response(status, body) == [exc |-> "none", status |-> status, body |-> body]
Raised(exc) == [exc |-> exc, status |-> 0, body |-> ""]

TransportResults ==
    {Response(s, b) : s \in Statuses, b \in Bodies}
        \cup {Raised(e) : e \in TransportExceptions}

Line(tag, arg) == [tag |-> tag, arg |-> arg]

\* int(time.time()): the clock reading truncated to whole seconds.
IntTime(now) == now \div TicksPerSecond

\* f"test-session-{int(time.time())}" and f"test-nlb-{int(time.time())}"
MakeSessionId(prefix, now) == <<prefix, IntTime(now)>>

\* response.json(): succeeds only on a body that is a JSON document.
JsonOk(body) == body = "{}"

\* The three probes of test-e2e-flow.py.
GatewaySteps ==
    <<[method |-> "POST", path |-> "execute", timeout |-> 30],
      [method |-> "GET",  path |-> "status",  timeout |-> 10],
      [method |-> "POST", path |-> "execute", timeout |-> 10]>>

NumSteps(s) == IF s = "gateway" THEN Len(GatewaySteps) ELSE 2

\* Status codes a probe compares the response with ({} when it compares none).
ExpectedStatus(s, k) ==
    IF s = "nlb" THEN (IF k = 1 THEN {200} ELSE {201}) ELSE {}

Request(k, method, path, sid) ==
    [step |-> k, method |-> method, path |-> path, sid |-> sid]

Outcome(k, kind) == [step |-> k, kind |-> kind]

----------------------------------------------------------------------------
(* Initial state: no process started yet *)

Init ==
    /\ clock = 0
    /\ run = 0
    /\ script = "none"
    /\ pc = "init"
    /\ step = 0
    /\ SESSION_ID = NoId
    /\ session_id = NoId
    /\ health_ok = FALSE
    /\ session_ok = FALSE
    /\ inflight = {}
    /\ requests = <<>>
    /\ results = <<>>
    /\ outcomes = <<>>
    /\ out = <<>>
    /\ exitCode = Running
    /\ generated = <<>>

\* Time passes, at any point of a run and between runs.
Tick ==
    /\ clock < MaxClock
    /\ clock' = clock + 1
    /\ UNCHANGED <<run, script, pc, step, SESSION_ID, session_id, health_ok,
                   session_ok, inflight, requests, results, outcomes, out,
                   exitCode, generated>>

\* A fresh interpreter: nothing of the previous process survives.
FreshProcess(s) ==
    /\ pc \in {"init", "exited"}
    /\ run < MaxRuns
    /\ run' = run + 1
    /\ script' = s
    /\ health_ok' = FALSE
    /\ session_ok' = FALSE
    /\ inflight' = {}
    /\ requests' = <<>>
    /\ results' = <<>>
    /\ outcomes' = <<>>
    /\ exitCode' = Running
    /\ clock' = clock

----------------------------------------------------------------------------
(* test-e2e-flow.py *)

\* Module level, lines 8-13: SESSION_ID is computed and the header printed.
StartGateway ==
    /\ FreshProcess("gateway")
    /\ SESSION_ID' = MakeSessionId("test-session", clock)
    /\ session_id' = NoId
    /\ generated' = Append(generated,
                           [run |-> run + 1, script |-> "gateway",
                            id |-> MakeSessionId("test-session", clock)])
    /\ out' = <<Line("=== End-to-End Flow Test ===", 0),
                Line("Session ID", MakeSessionId("test-session", clock)),
                Line("API Gateway", 0)>>
    /\ step' = 1
    /\ pc' = "send"

\* Position after requests.post / requests.get has been called: the call
\* blocks, so the script waits for the transport before anything else.
AfterSendAsync(k) ==
    IF k < Len(GatewaySteps) THEN [pc |-> "send", step |-> k + 1]
    ELSE [pc |-> "wait", step |-> k]
AfterSend(k) == [pc |-> "wait", step |-> k]

\* The request of probe k: the f-string of lines 19, 29, 38 is rendered at
\* time now from the global sid.
GatewayRequestRegenerated(k, sid, now) ==
    Request(k, GatewaySteps[k].method, GatewaySteps[k].path,
            MakeSessionId("test-session", now))
GatewayRequest(k, sid, now) ==
    Request(k, GatewaySteps[k].method, GatewaySteps[k].path, sid)

\* Lines 17-22, 27-31, 36-41: print the attempt line and issue the request.
GatewaySend(k) ==
    /\ script = "gateway"
    /\ pc = "send"
    /\ step = k
    /\ out' = Append(out, Line("Step", k))
    /\ inflight' = inflight \cup {GatewayRequest(k, SESSION_ID, clock)}
    /\ requests' = Append(requests, GatewayRequest(k, SESSION_ID, clock))
    /\ pc' = AfterSend(k).pc
    /\ step' = AfterSend(k).step
    /\ UNCHANGED <<clock, run, script, SESSION_ID, session_id, health_ok,
                   session_ok, results, outcomes, exitCode, generated>>

\* Lines 48-56: the except clauses, tried in order; "uncaught" when none
\* matches and the exception leaves the try statement.
GatewayExceptConnFirst(exc) ==
    IF "ConnectionError" \in Bases(exc) THEN "ConnectionError"
    ELSE IF "Timeout" \in Bases(exc) THEN "Timeout"
    ELSE IF "Exception" \in Bases(exc) THEN "OtherError"
    ELSE "uncaught"
GatewayExceptBare(exc) ==
    IF "Timeout" \in Bases(exc) THEN "Timeout"
    ELSE IF "ConnectionError" \in Bases(exc) THEN "ConnectionError"
    ELSE IF "BaseException" \in Bases(exc) THEN "OtherError"
    ELSE "uncaught"
GatewayExcept(exc) ==
    IF "Timeout" \in Bases(exc) THEN "Timeout"
    ELSE IF "ConnectionError" \in Bases(exc) THEN "ConnectionError"
    ELSE IF "Exception" \in Bases(exc) THEN "OtherError"
    ELSE "uncaught"

\* The line each except clause prints.
FailureLine(kind) ==
    CASE kind = "Timeout" -> "Timeout error"
      [] kind = "ConnectionError" -> "Connection error"
      [] OTHER -> "Error"

\* Position after a probe of the gateway script got its response.
AfterResponse(k) == IF k < Len(GatewaySteps) THEN "send" ELSE "pass"

\* The transport answers probe k: lines 23-24, 32-33, 42-43 on a response,
\* lines 48-56 on an exception.
GatewayRecvRaiseForStatus(k) ==
    /\ script = "gateway"
    /\ pc = "wait"
    /\ step = k
    /\ \E r \in TransportResults :
        /\ results' = Append(results, r)
        /\ inflight' = {q \in inflight : q.step # k}
        /\ IF r.exc = "none" /\ r.status < 400
           THEN /\ out' = out \o <<Line("Response Status", r.status),
                                   Line("Response", r.body)>>
                /\ outcomes' = Append(outcomes, Outcome(k, "Success"))
                /\ pc' = AfterResponse(k)
                /\ step' = IF k < Len(GatewaySteps) THEN k + 1 ELSE k
                /\ exitCode' = exitCode
           ELSE /\ out' = Append(out,
                      Line(IF r.exc = "none" THEN "Error"
                           ELSE FailureLine(GatewayExcept(r.exc)), r.exc))
                /\ outcomes' = Append(outcomes,
                      Outcome(k, IF r.exc = "none" THEN "OtherError"
                                 ELSE GatewayExcept(r.exc)))
                /\ pc' = "exited"
                /\ step' = k
                /\ exitCode' = 1
    /\ UNCHANGED <<clock, run, script, SESSION_ID, session_id, health_ok,
                   session_ok, requests, generated>>
GatewayRecv(k) ==
    /\ script = "gateway"
    /\ pc = "wait"
    /\ step = k
    /\ \E r \in TransportResults :
        /\ results' = Append(results, r)
        /\ inflight' = {q \in inflight : q.step # k}
        /\ IF r.exc = "none"
           THEN /\ out' = out \o <<Line("Response Status", r.status),
                                   Line("Response", r.body)>>
                /\ outcomes' = Append(outcomes, Outcome(k, "Success"))
                /\ pc' = AfterResponse(k)
                /\ step' = IF k < Len(GatewaySteps) THEN k + 1 ELSE k
                /\ exitCode' = exitCode
           ELSE /\ out' = Append(out, Line(FailureLine(GatewayExcept(r.exc)),
                                           r.exc))
                /\ outcomes' = Append(outcomes,
                                      Outcome(k, GatewayExcept(r.exc)))
                /\ pc' = "exited"
                /\ step' = k
                /\ exitCode' = 1
    /\ UNCHANGED <<clock, run, script, SESSION_ID, session_id, health_ok,
                   session_ok, requests, generated>>

\* Lines 45-46: the success line, then sys.exit(0) raises SystemExit inside
\* the try statement.
GatewayPass ==
    /\ script = "gateway"
    /\ pc = "pass"
    /\ IF GatewayExcept("SystemExit") = "uncaught"
       THEN /\ out' = Append(out, Line("End-to-end test completed successfully!", 0))
            /\ exitCode' = 0
       ELSE /\ out' = out \o
                  <<Line("End-to-end test completed successfully!", 0),
                    Line(FailureLine(GatewayExcept("SystemExit")), "SystemExit")>>
            /\ exitCode' = 1
    /\ pc' = "exited"
    /\ UNCHANGED <<clock, run, script, step, SESSION_ID, session_id,
                   health_ok, session_ok, inflight, requests, results,
                   outcomes, generated>>

----------------------------------------------------------------------------
(* test-nlb-session.py *)

\* Lines 42-45: the banner; main then calls test_health.
StartNlb ==
    /\ FreshProcess("nlb")
    /\ SESSION_ID' = NoId
    /\ session_id' = NoId
    /\ generated' = generated
    /\ out' = <<Line("Testing Dynamic Pod Lifecycle System via NLB", 0)>>
    /\ step' = 1
    /\ pc' = "health"

\* Lines 13-15: test_health prints its attempt line and calls requests.get.
HealthSend ==
    /\ script = "nlb"
    /\ pc = "health"
    /\ out' = Append(out, Line("Testing health endpoint...", 1))
    /\ inflight' = inflight \cup {Request(1, "GET", "/health", NoId)}
    /\ requests' = Append(requests, Request(1, "GET", "/health", NoId))
    /\ pc' = "health_wait"
    /\ UNCHANGED <<clock, run, script, step, SESSION_ID, session_id,
                   health_ok, session_ok, results, outcomes, exitCode,
                   generated>>

\* The outcome a test function of the nlb script reports for transport
\* result r: anything raised in its try block (by the call or by
\* response.json()) goes to "except Exception", which prints "Error: ...";
\* otherwise the function returns status_code == expected.
NlbOutcome(r, expected) ==
    IF r.exc # "none" THEN "OtherError"
    ELSE IF ~JsonOk(r.body) THEN "OtherError"
    ELSE IF r.status = expected THEN "Success"
    ELSE "UnexpectedStatus"

\* The lines a test function prints once the transport answered with r
\* (lines 16-17 and 20, lines 35-36 and 39).
NlbLinesSilent(r) ==
    IF r.exc # "none" THEN <<>>
    ELSE IF ~JsonOk(r.body)
         THEN <<Line("Status", r.status), Line("Error", "JSONDecodeError")>>
         ELSE <<Line("Status", r.status), Line("Response", r.body)>>
NlbLines(r) ==
    IF r.exc # "none" THEN <<Line("Error", r.exc)>>
    ELSE IF ~JsonOk(r.body)
         THEN <<Line("Status", r.status), Line("Error", "JSONDecodeError")>>
         ELSE <<Line("Status", r.status), Line("Response", r.body)>>

\* Lines 16-21 and line 48: test_health returns and main stores health_ok.
HealthRecv ==
    /\ script = "nlb"
    /\ pc = "health_wait"
    /\ \E r \in TransportResults :
        /\ results' = Append(results, r)
        /\ inflight' = {q \in inflight : q.step # 1}
        /\ out' = out \o NlbLines(r)
        /\ outcomes' = Append(outcomes, Outcome(1, NlbOutcome(r, 200)))
        /\ health_ok' = (NlbOutcome(r, 200) = "Success")
    /\ pc' = "main_health"
    /\ UNCHANGED <<clock, run, script, step, SESSION_ID, session_id,
                   session_ok, requests, exitCode, generated>>

\* Lines 50 and 58-59: main goes on to test_session_creation only if
\* health_ok; otherwise it prints the failure line and the script ends.
MainAfterHealthRetry ==
    /\ script = "nlb"
    /\ pc = "main_health"
    /\ IF health_ok
       THEN /\ pc' = "session"
            /\ step' = 2
       ELSE /\ pc' = "health"
            /\ step' = step
    /\ UNCHANGED <<out, exitCode>>
    /\ UNCHANGED <<clock, run, script, SESSION_ID, session_id, health_ok,
                   session_ok, inflight, requests, results, outcomes,
                   generated>>
MainAfterHealthAlways ==
    /\ script = "nlb"
    /\ pc = "main_health"
    /\ pc' = "session"
    /\ step' = 2
    /\ UNCHANGED <<out, exitCode>>
    /\ UNCHANGED <<clock, run, script, SESSION_ID, session_id, health_ok,
                   session_ok, inflight, requests, results, outcomes,
                   generated>>
MainAfterHealth ==
    /\ script = "nlb"
    /\ pc = "main_health"
    /\ IF health_ok
       THEN /\ pc' = "session"
            /\ step' = 2
            /\ UNCHANGED <<out, exitCode>>
       ELSE /\ out' = Append(out, Line("Health check failed", 0))
            /\ exitCode' = 0
            /\ pc' = "exited"
            /\ step' = step
    /\ UNCHANGED <<clock, run, script, SESSION_ID, session_id, health_ok,
                   session_ok, inflight, requests, results, outcomes,
                   generated>>

\* Lines 25-34: test_session_creation prints its attempt line, generates
\* session_id and calls requests.post.
SessionSend ==
    /\ script = "nlb"
    /\ pc = "session"
    /\ out' = Append(out, Line("Testing session creation...", 2))
    /\ session_id' = MakeSessionId("test-nlb", clock)
    /\ generated' = Append(generated,
                           [run |-> run, script |-> "nlb",
                            id |-> MakeSessionId("test-nlb", clock)])
    /\ inflight' = inflight \cup
           {Request(2, "POST", "/sessions", MakeSessionId("test-nlb", clock))}
    /\ requests' = Append(requests,
            Request(2, "POST", "/sessions", MakeSessionId("test-nlb", clock)))
    /\ pc' = "session_wait"
    /\ UNCHANGED <<clock, run, script, step, SESSION_ID, health_ok,
                   session_ok, results, outcomes, exitCode>>

\* Lines 35-40 and line 52: test_session_creation returns and main stores
\* session_ok.
SessionRecv ==
    /\ script = "nlb"
    /\ pc = "session_wait"
    /\ \E r \in TransportResults :
        /\ results' = Append(results, r)
        /\ inflight' = {q \in inflight : q.step # 2}
        /\ out' = out \o NlbLines(r)
        /\ outcomes' = Append(outcomes, Outcome(2, NlbOutcome(r, 201)))
        /\ session_ok' = (NlbOutcome(r, 201) = "Success")
    /\ pc' = "main_session"
    /\ UNCHANGED <<clock, run, script, step, SESSION_ID, session_id,
                   health_ok, requests, exitCode, generated>>

\* Lines 54-57: the verdict line; the script then runs off its end, which
\* ends the process with status 0.
MainAfterSessionAlwaysPass ==
    /\ script = "nlb"
    /\ pc = "main_session"
    /\ out' = Append(out, Line("ALL TESTS PASSED!", 0))
    /\ exitCode' = 0
    /\ pc' = "exited"
    /\ UNCHANGED <<clock, run, script, step, SESSION_ID, session_id,
                   health_ok, session_ok, inflight, requests, results,
                   outcomes, generated>>
MainAfterSession ==
    /\ script = "nlb"
    /\ pc = "main_session"
    /\ out' = IF session_ok
              THEN Append(out, Line("ALL TESTS PASSED!", 0))
              ELSE Append(out, Line("Session creation failed", 0))
    /\ exitCode' = 0
    /\ pc' = "exited"
    /\ UNCHANGED <<clock, run, script, step, SESSION_ID, session_id,
                   health_ok, session_ok, inflight, requests, results,
                   outcomes, generated>>

----------------------------------------------------------------------------
(* Specification *)

Next ==
    \/ Tick
    \/ StartGateway
    \/ \E k \in 1..Len(GatewaySteps) : GatewaySend(k)
    \/ \E k \in 1..Len(GatewaySteps) : GatewayRecv(k)
    \/ GatewayPass
    \/ StartNlb
    \/ HealthSend
    \/ HealthRecv
    \/ MainAfterHealth
    \/ SessionSend
    \/ SessionRecv
    \/ MainAfterSession

Spec == Init /\ [][Next]_vars

\* The steps of a script: the interpreter runs a started script on, and a
\* blocking call ends when the transport answers or raises (each call has a
\* timeout).  Ticks and the start of further processes are not forced.
ScriptStep ==
    \/ \E k \in 1..Len(GatewaySteps) : GatewaySend(k)
    \/ \E k \in 1..Len(GatewaySteps) : GatewayRecv(k)
    \/ GatewayPass
    \/ HealthSend
    \/ HealthRecv
    \/ MainAfterHealth
    \/ SessionSend
    \/ SessionRecv
    \/ MainAfterSession

FairSpec == Spec /\ WF_vars(ScriptStep)

----------------------------------------------------------------------------
(* Vocabulary of the properties *)

PassLines == {"End-to-end test completed successfully!", "ALL TESTS PASSED!"}
FailLines == {"Timeout error", "Connection error", "Error",
              "Health check failed", "Session creation failed"}

\* The verdict line of the run, as opposed to the per-probe "Error" line of
\* the nlb test functions.
IsVerdictFailLine(l) ==
    /\ l.tag \in FailLines
    /\ script = "nlb" => l.tag # "Error"

PassReported == \E i \in DOMAIN out : out[i].tag \in PassLines
FailReported == \E i \in DOMAIN out : IsVerdictFailLine(out[i])

IsFailure(o) == o.kind # "Success"
SomeStepFailed == \E i \in DOMAIN outcomes : IsFailure(outcomes[i])

----------------------------------------------------------------------------
(* Properties *)

\* C1: fail-fast.  Once a step that is not the last has ended in a Failure,
\* no request of a later step has been issued or is outstanding.
FailFast ==
    \A i \in DOMAIN outcomes :
        IsFailure(outcomes[i]) =>
            /\ \A j \in DOMAIN requests : requests[j].step <= outcomes[i].step
            /\ \A q \in inflight : q.step <= outcomes[i].step

\* A run that failed at a step before the last one and has exited.
FailFastWitness ==
    /\ pc = "exited"
    /\ \E i \in DOMAIN outcomes :
        /\ IsFailure(outcomes[i])
        /\ outcomes[i].step < NumSteps(script)
        /\ Len(requests) = outcomes[i].step

\* C2: exit-code mapping.  A process that has exited after reporting Pass
\* has exit code 0, and one that has exited after a failed step has exit
\* code 1, in both scripts.
ExitCodeMapping ==
    pc = "exited" =>
        /\ PassReported => exitCode = 0
        /\ SomeStepFailed => exitCode = 1

\* C3: sequential ordering.  At most one request is outstanding, and a
\* request of step n+1 exists only when the outcome of step n is recorded.
SequentialOrdering ==
    /\ Cardinality(inflight) <= 1
    /\ \A j \in DOMAIN requests :
        requests[j].step > 1 =>
            \E i \in DOMAIN outcomes : outcomes[i].step = requests[j].step - 1

\* The second request of a run is outstanding.
SequentialOrderingWitness ==
    /\ Len(requests) = 2
    /\ \E q \in inflight : q.step = 2

\* C4: timeout precision.  A step whose transport call raised a timeout is
\* reported with kind Timeout, in both scripts.
TimeoutPrecision ==
    \A i \in DOMAIN outcomes :
        "Timeout" \in Bases(results[i].exc) => outcomes[i].kind = "Timeout"

\* C5: connection-error precision.  A step whose transport call raised a
\* connection failure is reported with kind ConnectionError, in both scripts.
ConnectionErrorPrecision ==
    \A i \in DOMAIN outcomes :
        results[i].exc = "ConnectionError" =>
            outcomes[i].kind = "ConnectionError"

\* C6: unexpected status.  A step with a declared expected status that got a
\* response with another status is reported with kind UnexpectedStatus, and
\* the run ends with the failure verdict.
UnexpectedStatusReported ==
    \A i \in DOMAIN outcomes :
        ( /\ results[i].exc = "none"
          /\ ExpectedStatus(script, outcomes[i].step) # {}
          /\ results[i].status \notin ExpectedStatus(script, outcomes[i].step) )
        => /\ outcomes[i].kind = "UnexpectedStatus"
           /\ pc = "exited" => (FailReported /\ ~PassReported)

\* C7: success on expected status.  A step that got a response whose status
\* is in its expected status set is reported Success, whatever the body.
SuccessOnExpectedStatus ==
    \A i \in DOMAIN outcomes :
        ( /\ results[i].exc = "none"
          /\ results[i].status \in ExpectedStatus(script, outcomes[i].step) )
        => outcomes[i].kind = "Success"

\* C8: run verdict.  When the pass line is printed every declared step has
\* been executed with Success; a run in which a step failed ends with the
\* failure verdict and never prints the pass line.
RunVerdict ==
    /\ PassReported =>
        /\ Len(outcomes) = NumSteps(script)
        /\ \A i \in DOMAIN outcomes :
            outcomes[i].step = i /\ ~IsFailure(outcomes[i])
    /\ SomeStepFailed =>
        /\ ~PassReported
        /\ pc = "exited" => FailReported

\* A finished run of the nlb script that printed the pass line.
RunVerdictWitness ==
    /\ script = "nlb"
    /\ pc = "exited"
    /\ PassReported

\* C9: session identifier uniqueness.  Any two identifiers generated by
\* distinct runs differ.
SessionIdsUnique ==
    \A i, j \in DOMAIN generated :
        i # j => generated[i].id # generated[j].id

\* C10: session identifier stability.  A run of the gateway script generates
\* its identifier exactly once, before step 1, and every request it issues
\* carries that identifier.
SessionIdStable ==
    script = "gateway" =>
        /\ Cardinality({i \in DOMAIN generated : generated[i].run = run}) = 1
        /\ \A i \in DOMAIN generated :
            generated[i].run = run => generated[i].id = SESSION_ID
        /\ \A j \in DOMAIN requests : requests[j].sid = SESSION_ID

\* All three requests of a gateway run are issued, the last one in a later
\* clock second than the one the identifier was generated in.
SessionIdStableWitness ==
    /\ script = "gateway"
    /\ Len(requests) = 3
    /\ IntTime(clock) # SESSION_ID[2]

\* C11: no retry.  No two requests of a run belong to the same step, so a run
\* issues at most as many requests as its script declares steps (3 for the
\* gateway script, 2 for the nlb script), whatever the steps ended in.
NoRetry ==
    /\ \A i, j \in DOMAIN requests :
        i # j => requests[i].step # requests[j].step
    /\ Len(requests) <= NumSteps(script)
    /\ \A i \in DOMAIN outcomes :
        IsFailure(outcomes[i]) => Len(requests) = i

\* A finished run whose second step ended in a timeout after exactly two
\* requests.
NoRetryWitness ==
    /\ pc = "exited"
    /\ Len(requests) = 2
    /\ Len(results) = 2
    /\ "Timeout" \in Bases(results[2].exc)

\* The failure kind the error taxonomy gives a transport result of step k of
\* script s ("Success" when it is none).
TaxonomyKind(s, k, r) ==
    IF "Timeout" \in Bases(r.exc) THEN "Timeout"
    ELSE IF "ConnectionError" \in Bases(r.exc) THEN "ConnectionError"
    ELSE IF r.exc # "none" THEN "OtherError"
    ELSE IF ExpectedStatus(s, k) # {} /\ r.status \notin ExpectedStatus(s, k)
         THEN "UnexpectedStatus"
    ELSE "Success"

\* The failure kind a printed line names ("none" when it names none).
KindOfLine(tag) ==
    CASE tag = "Timeout error" -> "Timeout"
      [] tag = "Connection error" -> "ConnectionError"
      [] tag = "Error" -> "OtherError"
      [] tag = "Unexpected status" -> "UnexpectedStatus"
      [] OTHER -> "none"

\* C12: failure report content.  A run that ended after a failed step has
\* printed a failure line that names the kind of that failure, one line per
\* kind, with the raw detail.
FailureReportContent ==
    (pc = "exited" /\ SomeStepFailed) =>
        LET i == CHOOSE n \in DOMAIN outcomes : IsFailure(outcomes[n])
        IN \E n \in DOMAIN out :
            /\ KindOfLine(out[n].tag) # "none"
            /\ KindOfLine(out[n].tag)
                   = TaxonomyKind(script, outcomes[i].step, results[i])

\* A run is over once its verdict is out and the process has exited.
Terminal == pc = "exited"
InRun == pc \notin {"init", "exited"}

\* One step of a process (not the start of the next one) respects the run
\* state machine: the step index stays or advances by one, and advances only
\* past a step recorded as Success; a terminal run issues no request, prints
\* nothing and keeps its exit code.
RunTransition ==
    run' = run =>
        /\ step' \in {step, step + 1}
        /\ step' = step + 1 =>
            /\ step \in DOMAIN outcomes'
            /\ outcomes'[step] = Outcome(step, "Success")
        /\ Terminal =>
            /\ Terminal'
            /\ requests' = requests
            /\ inflight' = inflight
            /\ out' = out
            /\ exitCode' = exitCode

\* C13: run state machine and termination.  Every started run reaches a
\* terminal state with exactly one of the verdicts Passed and Failed, Passed
\* only with every step succeeded; the step index only advances by one, on a
\* Success; a terminal run issues nothing more and keeps its verdict.
RunStateMachine ==
    /\ InRun ~> Terminal
    /\ [](Terminal => (PassReported # FailReported))
    /\ [](PassReported =>
            /\ Len(outcomes) = NumSteps(script)
            /\ \A i \in DOMAIN outcomes : ~IsFailure(outcomes[i]))
    /\ [][RunTransition]_vars

\* A finished run of the nlb script that advanced to its second step and
\* failed there.
RunStateMachineWitness ==
    /\ script = "nlb"
    /\ Terminal
    /\ step = 2
    /\ FailReported

AttemptTags == {"Step", "Testing health endpoint...",
                "Testing session creation..."}
OutcomeTags == {"Response Status", "Status", "Error", "Timeout error",
                "Connection error"}

\* Position in out of the attempt line of step k (0 when there is none).
AttemptIndex(k) ==
    IF \E n \in DOMAIN out : out[n].tag \in AttemptTags /\ out[n].arg = k
    THEN CHOOSE n \in DOMAIN out : out[n].tag \in AttemptTags /\ out[n].arg = k
    ELSE 0

\* C14: diagnostics ordering.  Every issued request has its attempt line;
\* every recorded outcome has an outcome line after the attempt line of its
\* step and before the attempt line of the next step; a run that has exited
\* left no attempted step without an outcome line.
DiagnosticsOrdering ==
    /\ \A j \in DOMAIN requests : AttemptIndex(requests[j].step) > 0
    /\ Cardinality({n \in DOMAIN out : out[n].tag \in AttemptTags})
           = Len(requests)
    /\ \A i \in DOMAIN outcomes :
        \E n \in DOMAIN out :
            /\ out[n].tag \in OutcomeTags
            /\ AttemptIndex(outcomes[i].step) > 0
            /\ AttemptIndex(outcomes[i].step) < n
            /\ AttemptIndex(outcomes[i].step + 1) > 0
                   => n < AttemptIndex(outcomes[i].step + 1)
    /\ pc = "exited" => Len(outcomes) = Len(requests)

\* A finished run of the nlb script whose second call raised.
DiagnosticsOrderingWitness ==
    /\ script = "nlb"
    /\ pc = "exited"
    /\ Len(results) = 2
    /\ results[2].exc # "none"

\* C15: status-agnostic gateway probes.  A finished run of the gateway script
\* has exit code 0 exactly when each of its three requests got a response;
\* a response of any status is recorded as Success and does not end the run.
StatusAgnosticGateway ==
    script = "gateway" =>
        /\ \A i \in DOMAIN results :
            results[i].exc = "none" =>
                /\ outcomes[i].kind = "Success"
                /\ i < Len(GatewaySteps) => exitCode = Running \/ Len(requests) > i
        /\ pc = "exited" =>
            ( exitCode = 0 <=>
                /\ Len(results) = Len(GatewaySteps)
                /\ \A i \in DOMAIN results : results[i].exc = "none" )

\* A run of the gateway script that ended with exit code 0 although every
\* response it got had status 500.
StatusAgnosticGatewayWitness ==
    /\ script = "gateway"
    /\ pc = "exited"
    /\ exitCode = 0
    /\ \A i \in DOMAIN results : results[i].status = 500

GatewayFailureTags == {"Timeout error", "Connection error", "Error"}

\* C16: exclusive failure classification in the gateway script.  A run that
\* ended with exit code 1 printed exactly one failure line, as its last line,
\* and that line is the first that applies of Timeout, ConnectionError and
\* OtherError; a connect timeout is reported as Timeout.
ExclusiveClassification ==
    (script = "gateway" /\ pc = "exited" /\ exitCode = 1) =>
        /\ Cardinality({n \in DOMAIN out : out[n].tag \in GatewayFailureTags}) = 1
        /\ out[Len(out)].tag \in GatewayFailureTags
        /\ Len(results) > 0
        /\ LET e == results[Len(results)].exc
           IN /\ "Timeout" \in Bases(e) => out[Len(out)].tag = "Timeout error"
              /\ ("Timeout" \notin Bases(e) /\ "ConnectionError" \in Bases(e))
                    => out[Len(out)].tag = "Connection error"
              /\ ("Timeout" \notin Bases(e) /\ "ConnectionError" \notin Bases(e))
                    => out[Len(out)].tag = "Error"
        /\ outcomes[Len(outcomes)].kind = KindOfLine(out[Len(out)].tag)

\* A run of the gateway script that failed on a connect timeout, which is
\* both a timeout and a connection failure.
ExclusiveClassificationWitness ==
    /\ script = "gateway"
    /\ pc = "exited"
    /\ exitCode = 1
    /\ results[Len(results)].exc = "ConnectTimeout"

IsVerdictLine(l) == l.tag \in PassLines \/ IsVerdictFailLine(l)

\* C17: single verdict.  A finished run printed exactly one verdict line, the
\* pass line or one failure line; a run of the gateway script that printed
\* the pass line has exit code 0.
SingleVerdict ==
    pc = "exited" =>
        /\ Cardinality({n \in DOMAIN out : IsVerdictLine(out[n])}) = 1
        /\ (script = "gateway" /\ PassReported) => exitCode = 0

\* A run of the gateway script that printed the pass line and exited.
SingleVerdictWitness ==
    /\ script = "gateway"
    /\ pc = "exited"
    /\ PassReported
    /\ Len(outcomes) = Len(GatewaySteps)

====
